---- MODULE Spec2Model ----
(***************************************************************************)
(* Model of the three ASP.NET Web Forms scripts:                           *)
(*   security_audit.py        (SecurityAuditor)                            *)
(*   performance_profiler.py  (PerformanceProfiler)                        *)
(*   analyze_viewstate.py     (decode_viewstate / analyze_viewstate / main)*)
(*                                                                         *)
(* Text is modelled as a sequence of tokens (identifiers, punctuation,     *)
(* " " for a blank and NL for a line feed); a path is the sequence of its  *)
(* name and suffixes.  Regular expressions are modelled by a matcher over  *)
(* token sequences that implements literals, character classes, ".*",      *)
(* "\s*" and "\s+", with re.search semantics.                              *)
(***************************************************************************)
EXTENDS Integers, Sequences, FiniteSets, TLC

VARIABLES
    tool,       \* which script runs: "audit", "profile", "viewstate", "size", "metrics"
    pc,         \* position of the running script
    dir,        \* the directory: path -> [content, readable]
    todo,       \* paths the rglob loops have not yielded yet
    visited,    \* paths in the order the loops yielded them
    issues,     \* SecurityAuditor.issues
    metrics,    \* PerformanceProfiler.metrics, in insertion order
    report,     \* what print_report / main printed
    input,      \* argument of the pure-function scripts
    decoded     \* result of decode_viewstate

vars == <<tool, pc, dir, todo, visited, issues, metrics, report, input, decoded>>

----------------------------------------------------------------------------
(* Tokens *)

NL == "NL"
SP == " "
DQ == "dq"
SQ == "sq"

\* str.lower() / re.IGNORECASE on the tokens of the model
Lower(t) ==
    CASE t = "SqlCommand" -> "sqlcommand"
      [] t = "SQLCOMMAND" -> "sqlcommand"
      [] t = "SqlConnection" -> "sqlconnection"
      [] t = "ExecuteReader" -> "executereader"
      [] t = "ExecuteNonQuery" -> "executenonquery"
      [] t = "ExecuteScalar" -> "executescalar"
      [] t = "Request" -> "request"
      [] t = "QueryString" -> "querystring"
      [] t = "Form" -> "form"
      [] t = "SELECT" -> "select"
      [] t = "Text" -> "text"
      [] t = "Response" -> "response"
      [] t = "Write" -> "write"
      [] t = "innerHTML" -> "innerhtml"
      [] t = "HtmlEncode" -> "htmlencode"
      [] t = "AntiXssEncoder" -> "antixssencoder"
      [] t = "Password" -> "password"
      [] t = "PASSWORD" -> "password"
      [] t = "connectionString" -> "connectionstring"
      [] t = "ViewState" -> "viewstate"
      [] t = "Credit" -> "credit"
      [] t = "OutputCache" -> "outputcache"
      [] t = "<asp:" -> "<asp:"
      [] t = "<ASP:" -> "<asp:"
      [] t = "UpdatePanel" -> "updatepanel"
      [] t = "Web.config" -> "web.config"
      [] t = "Web.Config" -> "web.config"
      [] OTHER -> t

LowerSeq(s) == [i \in 1..Len(s) |-> Lower(s[i])]

\* s[from..] starts with the token sequence lit
StartsAt(s, lit, from) ==
    /\ from + Len(lit) - 1 <= Len(s)
    /\ \A k \in 1..Len(lit) : s[from + k - 1] = lit[k]

\* Python's `lit in s`
Contains(s, lit) == \E i \in 1..(Len(s) + 1) : StartsAt(s, lit, i)

\* number of non-overlapping occurrences of lit in s from position `from`, scanning left to
\* right (bytes.count, and len(re.findall(lit, s)) for a literal pattern)
RECURSIVE CountFrom(_, _, _)
CountFrom(s, lit, from) ==
    IF from + Len(lit) - 1 > Len(s) THEN 0
    ELSE IF StartsAt(s, lit, from) THEN 1 + CountFrom(s, lit, from + Len(lit))
    ELSE CountFrom(s, lit, from + 1)

Count(s, lit) == CountFrom(s, lit, 1)

----------------------------------------------------------------------------
(* Regular expressions over token sequences *)

Lit(t) == [kind |-> "lit", toks |-> {t}]
Class(ts) == [kind |-> "lit", toks |-> ts]
AnyStar == [kind |-> "any", toks |-> {}]
Ws0 == [kind |-> "ws0", toks |-> {}]
Ws1 == [kind |-> "ws1", toks |-> {}]

\* \s matches a blank and a line feed
IsSpace(t) == t \in {SP, NL}

\* the pattern p from element i matches a prefix of line[j..]
RECURSIVE Match(_, _, _, _)
Match(p, line, i, j) ==
    IF i > Len(p) THEN TRUE
    ELSE CASE p[i].kind = "lit" ->
                /\ j <= Len(line)
                /\ line[j] \in p[i].toks
                /\ Match(p, line, i + 1, j + 1)
           [] p[i].kind = "any" ->
                \E k \in j..(Len(line) + 1) :
                    /\ \A m \in j..(k - 1) : line[m] # NL
                    /\ Match(p, line, i + 1, k)
           [] p[i].kind = "ws0" ->
                \E k \in j..(Len(line) + 1) :
                    /\ \A m \in j..(k - 1) : IsSpace(line[m])
                    /\ Match(p, line, i + 1, k)
           [] p[i].kind = "ws1" ->
                \E k \in (j + 1)..(Len(line) + 1) :
                    /\ \A m \in j..(k - 1) : IsSpace(line[m])
                    /\ Match(p, line, i + 1, k)

\* re.search(p, line)
Search(p, line) == \E j \in 1..(Len(line) + 1) : Match(p, line, 1, j)

\* re.search(p, line, re.IGNORECASE); the patterns are written in lower case
SearchI(p, line) == Search(p, LowerSeq(line))

----------------------------------------------------------------------------
(* str.split('\n') and str.strip() *)

\* content.split('\n'): the pieces between the line feeds, one more than there are line feeds
Split(content) ==
    LET feeds == {i \in 1..Len(content) : content[i] = NL}
        Feed(k) == CHOOSE i \in feeds : Cardinality({j \in feeds : j <= i}) = k
        n == Cardinality(feeds)
    IN  [k \in 1..(n + 1) |->
            SubSeq(content,
                   IF k = 1 THEN 1 ELSE Feed(k - 1) + 1,
                   IF k = n + 1 THEN Len(content) ELSE Feed(k) - 1)]

RECURSIVE LStrip(_)
LStrip(s) == IF s # <<>> /\ IsSpace(Head(s)) THEN LStrip(Tail(s)) ELSE s

RECURSIVE RStrip(_)
RStrip(s) ==
    IF s # <<>> /\ IsSpace(s[Len(s)]) THEN RStrip(SubSeq(s, 1, Len(s) - 1)) ELSE s

Strip(s) == RStrip(LStrip(s))

----------------------------------------------------------------------------
(* security_audit.py *)

SqlPatterns == <<
    [re |-> <<Lit("sqlcommand"), AnyStar, Lit("+"), AnyStar, Lit("request")>>,
     message |-> "SQL injection: String concatenation with Request data"],
    [re |-> <<Lit("sqlcommand"), AnyStar, Lit("+"), AnyStar, Lit("querystring")>>,
     message |-> "SQL injection: String concatenation with QueryString"],
    [re |-> <<Lit("sqlcommand"), AnyStar, Lit("+"), AnyStar, Lit("form"), Lit("[")>>,
     message |-> "SQL injection: String concatenation with Form data"],
    [re |-> <<Lit(DQ), Lit("select"), AnyStar, Lit("+")>>,
     message |-> "SQL injection: String concatenation in SQL query"] >>

XssPatterns == <<
    [re |-> <<Lit("."), Lit("text"), Ws0, Lit("="), Ws0, Lit("request"), Lit("[")>>,
     message |-> "XSS: Direct assignment from Request without encoding"],
    [re |-> <<Lit("."), Lit("text"), Ws0, Lit("="), Ws0, Lit("request"), Lit("."),
              Lit("querystring")>>,
     message |-> "XSS: Direct assignment from QueryString without encoding"],
    [re |-> <<Lit("response"), Lit("."), Lit("write"), Lit("("), Lit("request")>>,
     message |-> "XSS: Response.Write with Request data"],
    [re |-> <<Lit("innerhtml"), AnyStar, Lit("request")>>,
     message |-> "XSS: Direct HTML injection from Request"] >>

\* r'HtmlEncode|AntiXssEncoder'
EncodePattern == <<Class({"htmlencode", "antixssencoder"})>>

SensitivePatterns == <<
    [re |-> <<Lit("password"), Ws0, Lit("="), Ws0, Class({DQ, SQ})>>,
     message |-> "Hardcoded password detected"],
    [re |-> <<Lit("connectionstring"), AnyStar, Lit("password")>>,
     message |-> "Password in connection string"],
    [re |-> <<Lit("viewstate"), Lit("["), Lit(DQ), AnyStar, Lit("password")>>,
     message |-> "Password stored in ViewState"],
    [re |-> <<Lit("viewstate"), Lit("["), Lit(DQ), AnyStar, Lit("credit")>>,
     message |-> "Credit card data in ViewState"] >>

\* the record add_issue appends
Issue(severity, filepath, line_num, line_content, message) ==
    [severity |-> severity, file |-> filepath, line |-> line_num,
     content |-> line_content, message |-> message]

\* for pattern, message in patterns: if hit: add_issue, on line i, from pattern k on;
\* hit[i][k] is the outcome of the test of pattern k on line i
RECURSIVE LineIssues(_, _, _, _, _, _, _)
LineIssues(filepath, line, i, patterns, severity, hit, k) ==
    IF k > Len(patterns) THEN <<>>
    ELSE (IF hit[i][k]
          THEN <<Issue(severity, filepath, i, Strip(line), patterns[k].message)>>
          ELSE <<>>)
         \o LineIssues(filepath, line, i, patterns, severity, hit, k + 1)

\* for i, line in enumerate(lines, 1): the inner loop on each line, from line i on
RECURSIVE LineScan(_, _, _, _, _, _)
LineScan(filepath, lines, patterns, severity, hit, i) ==
    IF i > Len(lines) THEN <<>>
    ELSE LineIssues(filepath, lines[i], i, patterns, severity, hit, 1)
         \o LineScan(filepath, lines, patterns, severity, hit, i + 1)

SqlHit(re, line) == SearchI(re, line)

\* a scan that stops at the first pattern a line matches
check_sql_injection_first(filepath, lines) ==
    LET all == LineScan(filepath, lines, SqlPatterns, "CRITICAL",
                        [i \in 1..Len(lines) |->
                            [k \in 1..Len(SqlPatterns) |-> SqlHit(SqlPatterns[k].re, lines[i])]],
                        1)
        First(f) == \A k \in 1..Len(all) :
                        all[k].line = f.line =>
                            (CHOOSE n \in 1..Len(all) : all[n] = f) <= k
    IN  SelectSeq(all, First)

check_sql_injection(filepath, lines) ==
    LineScan(filepath, lines, SqlPatterns, "CRITICAL",
             [i \in 1..Len(lines) |->
                [k \in 1..Len(SqlPatterns) |-> SqlHit(SqlPatterns[k].re, lines[i])]],
             1)

XssHitUnsuppressed(re, line) == SearchI(re, line)

XssHit(re, line) == SearchI(re, line) /\ ~SearchI(EncodePattern, line)

check_xss(filepath, lines) ==
    LineScan(filepath, lines, XssPatterns, "HIGH",
             [i \in 1..Len(lines) |->
                [k \in 1..Len(XssPatterns) |-> XssHit(XssPatterns[k].re, lines[i])]],
             1)

MacDisabled == <<"enableViewStateMac", "=", DQ, "false", DQ>>
EncryptionMode == <<"viewStateEncryptionMode">>

check_viewstate_security_any(filepath, content) ==
    (IF Contains(content, MacDisabled)
     THEN <<Issue("HIGH", filepath, 0, <<>>,
                  "ViewState MAC disabled - vulnerable to tampering")>>
     ELSE <<>>)
    \o
    (IF ~Contains(content, EncryptionMode)
     THEN <<Issue("MEDIUM", filepath, 0, <<>>, "ViewState encryption not configured")>>
     ELSE <<>>)

check_viewstate_security(filepath, content) ==
    IF Contains(filepath, <<".aspx">>)
    THEN (IF Contains(content, MacDisabled)
          THEN <<Issue("HIGH", filepath, 0, <<>>,
                       "ViewState MAC disabled - vulnerable to tampering")>>
          ELSE <<>>)
         \o
         (IF ~Contains(content, EncryptionMode)
          THEN <<Issue("MEDIUM", filepath, 0, <<>>,
                       "ViewState encryption not configured")>>
          ELSE <<>>)
    ELSE <<>>

\* 'web.config' in str(filepath).lower()
IsWebConfig(filepath) == Contains(LowerSeq(filepath), <<"web.config">>)

AuthNone == <<"<", "authentication", SP, "mode", "=", DQ, "None", DQ>>
AllowAll == <<"<", "allow", SP, "users", "=", DQ, "*", DQ>>

check_authentication(filepath, content) ==
    IF IsWebConfig(filepath)
    THEN (IF Contains(content, AuthNone)
          THEN <<Issue("CRITICAL", filepath, 0, <<>>, "Authentication disabled")>>
          ELSE <<>>)
         \o
         (IF Contains(content, AllowAll)
          THEN <<Issue("HIGH", filepath, 0, <<>>, "Anonymous access allowed globally")>>
          ELSE <<>>)
    ELSE <<>>

SensitiveHit(re, line) == SearchI(re, line)

check_sensitive_data(filepath, lines) ==
    LineScan(filepath, lines, SensitivePatterns, "CRITICAL",
             [i \in 1..Len(lines) |->
                [k \in 1..Len(SensitivePatterns) |->
                    SensitiveHit(SensitivePatterns[k].re, lines[i])]],
             1)

ErrorsOff == <<"customErrors", SP, "mode", "=", DQ, "Off", DQ>>
DebugOn == <<"<", "compilation", SP, "debug", "=", DQ, "true", DQ>>

\* the debug finding filed under a severity the report has no list for
check_error_handling_low(filepath, content) ==
    IF IsWebConfig(filepath)
    THEN (IF Contains(content, ErrorsOff)
          THEN <<Issue("LOW", filepath, 0, <<>>,
                       "Custom errors disabled - stack traces exposed")>>
          ELSE <<>>)
         \o
         (IF Contains(content, DebugOn)
          THEN <<Issue("MEDIUM", filepath, 0, <<>>, "Debug mode enabled in production")>>
          ELSE <<>>)
    ELSE <<>>

check_error_handling(filepath, content) ==
    IF IsWebConfig(filepath)
    THEN (IF Contains(content, ErrorsOff)
          THEN <<Issue("HIGH", filepath, 0, <<>>,
                       "Custom errors disabled - stack traces exposed")>>
          ELSE <<>>)
         \o
         (IF Contains(content, DebugOn)
          THEN <<Issue("MEDIUM", filepath, 0, <<>>, "Debug mode enabled in production")>>
          ELSE <<>>)
    ELSE <<>>

\* the checks called in the family order of the specification
ScanFileIssuesSpecOrder(filepath, content) ==
    LET lines == Split(content)
    IN  check_sql_injection(filepath, lines)
        \o check_xss(filepath, lines)
        \o check_viewstate_security(filepath, content)
        \o check_sensitive_data(filepath, lines)
        \o check_authentication(filepath, content)
        \o check_error_handling(filepath, content)

\* the issues scan_file appends for a file that was read
ScanFileIssues(filepath, content) ==
    LET lines == Split(content)
    IN  check_sql_injection(filepath, lines)
        \o check_xss(filepath, lines)
        \o check_viewstate_security(filepath, content)
        \o check_authentication(filepath, content)
        \o check_sensitive_data(filepath, lines)
        \o check_error_handling(filepath, content)

\* an unreadable file that ends the collection instead of being skipped
scan_file_abort(filepath) ==
    IF dir[filepath].readable
    THEN issues \o ScanFileIssues(filepath, dir[filepath].content)
    ELSE <<>>

\* open() raises for an unreadable file; the except clause prints and returns
scan_file(filepath) ==
    IF dir[filepath].readable
    THEN issues \o ScanFileIssues(filepath, dir[filepath].content)
    ELSE issues

\* Path.rglob('*' + ext)
HasExt(filepath, ext) == filepath # <<>> /\ filepath[Len(filepath)] = ext

\* the paths scan's two loops yield, and those profile's loop yields
AuditTargets(d) == {p \in DOMAIN d : HasExt(p, ".aspx") \/ HasExt(p, ".cs")}
ProfileTargets(d) == {p \in DOMAIN d : HasExt(p, ".aspx")}

\* for ext in ['.aspx', '.cs']: the '.cs' loop starts when the '.aspx' loop is exhausted;
\* rglob yields the files of one loop in an order the file system decides
NextToScan(p) ==
    /\ p \in todo
    /\ HasExt(p, ".aspx") \/ ~\E q \in todo : HasExt(q, ".aspx")

ScanFile ==
    /\ tool = "audit"
    /\ pc = "scan"
    /\ \E p \in todo :
        /\ NextToScan(p)
        /\ issues' = scan_file(p)
        /\ todo' = todo \ {p}
        /\ visited' = Append(visited, p)
    /\ UNCHANGED <<tool, pc, dir, metrics, report, input, decoded>>

ReportSeverities == {"CRITICAL", "HIGH", "MEDIUM"}

WithSeverity(list, s) == LET Is(i) == i.severity = s IN SelectSeq(list, Is)

\* SecurityAuditor.print_report: the three lists and the printed total
AuditReport(list) ==
    [buckets |-> [s \in ReportSeverities |-> WithSeverity(list, s)],
     total |-> Len(list)]

PrintReport ==
    /\ tool = "audit"
    /\ pc = "scan"
    /\ todo = {}
    /\ report' = AuditReport(issues)
    /\ pc' = "done"
    /\ UNCHANGED <<tool, dir, todo, visited, issues, metrics, input, decoded>>

NextAudit == ScanFile \/ PrintReport

----------------------------------------------------------------------------
(* performance_profiler.py *)

ControlsLimit == 20
UpdatePanelsLimit == 5
DatabaseCallsLimit == 10

ViewStateOff == <<"EnableViewState", "=", DQ, "false", DQ>>

check_viewstate(content) == ~Contains(content, ViewStateOff)

check_output_cache(content) == SearchI(<<Lit("outputcache")>>, content)

count_server_controls(content) == Count(LowerSeq(content), <<"<asp:">>)

count_updatepanels(content) == Count(LowerSeq(content), <<"<asp:", "updatepanel">>)

count_database_calls(content) ==
    Count(LowerSeq(content), <<"sqlcommand">>)
    + Count(LowerSeq(content), <<"sqlconnection">>)
    + Count(LowerSeq(content), <<"executereader">>)
    + Count(LowerSeq(content), <<"executenonquery">>)
    + Count(LowerSeq(content), <<"executescalar">>)

\* r'async\s+Task|await\s+', case-sensitive
check_async(content) ==
    \/ Search(<<Lit("async"), Ws1, Lit("Task")>>, content)
    \/ Search(<<Lit("await"), Ws1>>, content)

PerfIssue(severity, text, n) == [severity |-> severity, message |-> <<text, n>>]

ViewStateIssueAtLimit(m) ==
    IF m.viewstate_enabled /\ m.server_controls >= ControlsLimit
    THEN <<PerfIssue("HIGH", "ViewState enabled with n server controls", m.server_controls)>>
    ELSE <<>>

ViewStateIssue(m) ==
    IF m.viewstate_enabled /\ m.server_controls > ControlsLimit
    THEN <<PerfIssue("HIGH", "ViewState enabled with n server controls", m.server_controls)>>
    ELSE <<>>

OutputCacheIssue(m) ==
    IF ~m.output_cache /\ m.database_calls > 0
    THEN <<PerfIssue("MEDIUM", "No output caching configured", 0)>>
    ELSE <<>>

UpdatePanelIssue(m) ==
    IF m.updatepanels > UpdatePanelsLimit
    THEN <<PerfIssue("MEDIUM", "n UpdatePanels detected", m.updatepanels)>>
    ELSE <<>>

DatabaseCallsIssue(m) ==
    IF m.database_calls > DatabaseCallsLimit
    THEN <<PerfIssue("HIGH", "n database operations detected", m.database_calls)>>
    ELSE <<>>

AsyncIssue(m) ==
    IF m.database_calls > 0 /\ ~m.async_operations
    THEN <<PerfIssue("LOW", "Database operations detected but no async/await", 0)>>
    ELSE <<>>

\* analyze_metrics: metrics['issues'] after the five checks
analyze_metrics(m) ==
    [m EXCEPT !.issues = m.issues \o ViewStateIssue(m) \o OutputCacheIssue(m)
                         \o UpdatePanelIssue(m) \o DatabaseCallsIssue(m) \o AsyncIssue(m)]

\* filepath.with_suffix('.aspx.cs')
CodeBehind(filepath) == SubSeq(filepath, 1, Len(filepath) - 1) \o <<".aspx", ".cs">>

\* both open() calls of profile_page succeed
PageReadable(filepath) ==
    /\ dir[filepath].readable
    /\ CodeBehind(filepath) \in DOMAIN dir => dir[CodeBehind(filepath)].readable

PageMetrics(filepath) ==
    LET content == dir[filepath].content
        cs_content == IF CodeBehind(filepath) \in DOMAIN dir
                      THEN dir[CodeBehind(filepath)].content ELSE <<>>
    IN  analyze_metrics(
            [file |-> filepath,
             viewstate_enabled |-> check_viewstate(content),
             output_cache |-> check_output_cache(content),
             server_controls |-> count_server_controls(content),
             updatepanels |-> count_updatepanels(content),
             database_calls |-> count_database_calls(cs_content),
             async_operations |-> check_async(cs_content),
             issues |-> <<>>])

\* profile_page: self.metrics[str(filepath)] = metrics, unless an open() raised
profile_page(filepath) ==
    IF PageReadable(filepath) THEN Append(metrics, PageMetrics(filepath)) ELSE metrics

ProfilePage ==
    /\ tool = "profile"
    /\ pc = "scan"
    /\ \E p \in todo :
        /\ metrics' = profile_page(p)
        /\ todo' = todo \ {p}
        /\ visited' = Append(visited, p)
    /\ UNCHANGED <<tool, pc, dir, issues, report, input, decoded>>

RECURSIVE SumIssues(_)
SumIssues(ms) == IF ms = <<>> THEN 0 ELSE Len(Head(ms).issues) + SumIssues(Tail(ms))

\* PerformanceProfiler.print_report: the two totals, then one section per page with issues
ProfileReport(ms) ==
    LET HasIssues(m) == m.issues # <<>>
        shown == SelectSeq(ms, HasIssues)
    IN  [pages |-> Len(ms),
         total |-> SumIssues(ms),
         sections |-> [i \in 1..Len(shown) |->
                          [file |-> shown[i].file, issues |-> shown[i].issues]]]

ProfilePrintReport ==
    /\ tool = "profile"
    /\ pc = "scan"
    /\ todo = {}
    /\ report' = ProfileReport(metrics)
    /\ pc' = "done"
    /\ UNCHANGED <<tool, dir, todo, visited, issues, metrics, input, decoded>>

NextProfile == ProfilePage \/ ProfilePrintReport

----------------------------------------------------------------------------
(* analyze_viewstate.py *)

AcceptableLimit == 10000
WarningLimit == 50000

IsHex(c) == c \in {"A", "D", "3"}
HexVal(c) == CASE c = "A" -> 10 [] c = "D" -> 13 [] c = "3" -> 3

\* the character a percent escape stands for; a byte above 0x7f never decodes to ASCII
Chr(byte) ==
    CASE byte = 51 -> "3"
      [] byte = 58 -> ":"
      [] byte = 61 -> "="
      [] OTHER -> "nonascii"

\* urllib.parse.unquote: %XY with two hex digits becomes a character, any other % stays
RECURSIVE UnquoteFrom(_, _)
UnquoteFrom(s, i) ==
    IF i > Len(s) THEN <<>>
    ELSE IF s[i] = "%" /\ i + 2 <= Len(s) /\ IsHex(s[i + 1]) /\ IsHex(s[i + 2])
         THEN <<Chr(16 * HexVal(s[i + 1]) + HexVal(s[i + 2]))>> \o UnquoteFrom(s, i + 3)
         ELSE <<s[i]>> \o UnquoteFrom(s, i + 1)

unquote(s) == UnquoteFrom(s, 1)

IsB64(c) == c \in {"A", "D", "Q", "3"}
B64Val(c) == CASE c = "A" -> 0 [] c = "D" -> 3 [] c = "Q" -> 16 [] c = "3" -> 55

\* binascii.a2b_base64 (not strict): one character of the input
B64Step(st, c) ==
    IF st.done THEN st
    ELSE IF c = "="
    THEN IF st.quad_pos >= 2 /\ st.quad_pos + st.pads + 1 >= 4
         THEN [st EXCEPT !.pads = st.pads + 1, !.done = TRUE, !.quad_pos = 0]
         ELSE IF st.quad_pos >= 2 THEN [st EXCEPT !.pads = st.pads + 1] ELSE st
    ELSE IF ~IsB64(c) THEN st
    ELSE LET v == B64Val(c)
         IN  CASE st.quad_pos = 0 ->
                    [st EXCEPT !.pads = 0, !.quad_pos = 1, !.leftchar = v]
               [] st.quad_pos = 1 ->
                    [st EXCEPT !.pads = 0, !.quad_pos = 2, !.leftchar = v % 16,
                               !.out = Append(st.out, st.leftchar * 4 + v \div 16)]
               [] st.quad_pos = 2 ->
                    [st EXCEPT !.pads = 0, !.quad_pos = 3, !.leftchar = v % 4,
                               !.out = Append(st.out, st.leftchar * 16 + v \div 4)]
               [] st.quad_pos = 3 ->
                    [st EXCEPT !.pads = 0, !.quad_pos = 0, !.leftchar = 0,
                               !.out = Append(st.out, st.leftchar * 64 + v)]

RECURSIVE B64Run(_, _, _)
B64Run(st, s, i) == IF i > Len(s) THEN st ELSE B64Run(B64Step(st, s[i]), s, i + 1)

NoBytes == [none |-> TRUE, bytes |-> <<>>]
SomeBytes(b) == [none |-> FALSE, bytes |-> b]

\* base64.b64decode: a str that is not ASCII raises ValueError, a dangling quad raises
\* binascii.Error
b64decode(s) ==
    IF \E i \in 1..Len(s) : s[i] = "nonascii" THEN NoBytes
    ELSE LET st == B64Run([quad_pos |-> 0, leftchar |-> 0, pads |-> 0, out |-> <<>>,
                           done |-> FALSE], s, 1)
         IN  IF st.quad_pos # 0 THEN NoBytes ELSE SomeBytes(st.out)

\* decode_viewstate: None when unquote or b64decode raised
decode_viewstate(viewstate_str) == b64decode(unquote(viewstate_str))

MarkerNames == {"DataGrid/GridView", "Repeater", "TextBox", "DropDownList", "Hidden Fields"}

MarkerBytes(name) ==
    CASE name = "DataGrid/GridView" -> <<18, 0>>
      [] name = "Repeater" -> <<15, 0>>
      [] name = "TextBox" -> <<13, 0>>
      [] name = "DropDownList" -> <<14, 0>>
      [] name = "Hidden Fields" -> <<16, 0>>

MarkerCounts(bytes) == [name \in MarkerNames |-> Count(bytes, MarkerBytes(name))]

SizeClass(size) ==
    IF size < AcceptableLimit THEN "acceptable"
    ELSE IF size < WarningLimit THEN "warning"
    ELSE "urgent"

NoAnalysis == [printed |-> FALSE]

\* analyze_viewstate on a payload of `size` bytes with the marker counts `counts`:
\* `if not viewstate_bytes: return` leaves on the empty payload
AnalyzeSized(size, counts) ==
    IF size = 0 THEN NoAnalysis
    ELSE [printed |-> TRUE, size |-> size, class |-> SizeClass(size), counts |-> counts]

analyze_viewstate(viewstate_bytes) ==
    AnalyzeSized(Len(viewstate_bytes), MarkerCounts(viewstate_bytes))

\* `if viewstate_bytes:` of main
Truthy(d) == ~d.none /\ d.bytes # <<>>

Decode ==
    /\ tool = "viewstate"
    /\ pc = "start"
    /\ decoded' = decode_viewstate(input)
    /\ pc' = "decoded"
    /\ UNCHANGED <<tool, dir, todo, visited, issues, metrics, report, input>>

MainAnalyze ==
    /\ tool = "viewstate"
    /\ pc = "decoded"
    /\ Truthy(decoded)
    /\ report' = [status |-> "analyzed", exit |-> 0,
                  analysis |-> analyze_viewstate(decoded.bytes)]
    /\ pc' = "done"
    /\ UNCHANGED <<tool, dir, todo, visited, issues, metrics, input, decoded>>

MainFail ==
    /\ tool = "viewstate"
    /\ pc = "decoded"
    /\ ~Truthy(decoded)
    /\ report' = [status |-> "Failed to decode ViewState", exit |-> 1,
                  analysis |-> NoAnalysis]
    /\ pc' = "done"
    /\ UNCHANGED <<tool, dir, todo, visited, issues, metrics, input, decoded>>

NextViewstate == Decode \/ MainAnalyze \/ MainFail

\* analyze_viewstate applied to a payload of `input` bytes that holds no marker
AnalyzeSize ==
    /\ tool = "size"
    /\ pc = "start"
    /\ report' = AnalyzeSized(input, [name \in MarkerNames |-> 0])
    /\ pc' = "done"
    /\ UNCHANGED <<tool, dir, todo, visited, issues, metrics, input, decoded>>

\* analyze_metrics applied to the two metrics records of `input`
AnalyzePair ==
    /\ tool = "metrics"
    /\ pc = "start"
    /\ report' = <<analyze_metrics(input[1]).issues, analyze_metrics(input[2]).issues>>
    /\ pc' = "done"
    /\ UNCHANGED <<tool, dir, todo, visited, issues, metrics, input, decoded>>

----------------------------------------------------------------------------
(* Inputs *)

MaxFiles == 2
MaxLines == 2
MaxPayload == 4
MaxSize == 50001
Margin == 1

RECURSIVE Repeat(_, _)
Repeat(s, n) == IF n = 0 THEN <<>> ELSE s \o Repeat(s, n - 1)

\* '\n'.join(lines)
RECURSIVE Join(_)
Join(lines) ==
    IF lines = <<>> THEN <<>>
    ELSE IF Len(lines) = 1 THEN lines[1]
    ELSE lines[1] \o <<NL>> \o Join(Tail(lines))

\* SqlCommand cmd = new SqlCommand("SELECT * FROM x WHERE id=" + Request.QueryString["id"]);
LSql ==
    <<"SqlCommand", SP, "cmd", SP, "=", SP, "new", SP, "SqlCommand", "(", DQ, "SELECT", SP,
      "*", SP, "FROM", SP, "x", SP, "WHERE", SP, "id", "=", DQ, SP, "+", SP, "Request", ".",
      "QueryString", "[", DQ, "id", DQ, "]", ")", ";">>

\* Response.Write(Request["q"]);
LXss == <<SP, "Response", ".", "Write", "(", "Request", "[", DQ, "q", DQ, "]", ")", ";">>

\* lbl.Text = Request.QueryString["q"]; string PASSWORD = 'p'; sqlcommand("x" + Form["f"]);
LMix ==
    <<"lbl", ".", "Text", SP, "=", SP, "Request", ".", "QueryString", "[", DQ, "q", DQ, "]",
      ";", SP, "string", SP, "PASSWORD", SP, "=", SP, SQ, "p", SQ, ";", SP, "sqlcommand",
      "(", DQ, "x", DQ, SP, "+", SP, "Form", "[", DQ, "f", DQ, "]", ")", ";">>

\* the same lines with an encoder named at the end
LXssEnc == LXss \o <<SP, "//", SP, "HtmlEncode">>
LMixEnc == LMix \o <<SP, "//", SP, "AntiXssEncoder">>

\* ViewState["Password"] = pwd;
LPwd == <<"ViewState", "[", DQ, "Password", DQ, "]", SP, "=", SP, "pwd", ";", SP>>

\* <authentication mode="None" /> <customErrors mode="Off" />
LCfg ==
    <<"<", "authentication", SP, "mode", "=", DQ, "None", DQ, SP, "/>", SP,
      "<", "customErrors", SP, "mode", "=", DQ, "Off", DQ, SP, "/>">>

\* <%@ Page enableViewStateMac="false" viewStateEncryptionMode="Always" %>
LPage ==
    <<"<%@", SP, "Page", SP, "enableViewStateMac", "=", DQ, "false", DQ, SP,
      "viewStateEncryptionMode", "=", DQ, "Always", DQ, SP, "%>">>

LineCatalog == {<<>>, LSql, LXss, LXssEnc, LMix, LMixEnc, LPwd, LCfg, LPage}

FileContents ==
    {Join(ls) : ls \in UNION {[1..n -> LineCatalog] : n \in 0..MaxLines}}

\* a page with 21 server controls, 6 of them UpdatePanels
MControls == Repeat(<<"<asp:", "Label">>, 15) \o Repeat(<<"<ASP:", "UpdatePanel">>, 6)

\* code with 11 database calls and no async
CsCalls == Repeat(<<"SqlCommand", ";">>, 11)

\* code with one database call under await
CsAsync == <<"await", SP, "cmd", ".", "ExecuteReader", "(", ")", ";">>

DirContents ==
    {<<>>, LSql, Join(<<LXss, LPwd>>), Join(<<LCfg, LPwd>>), MControls, CsCalls, CsAsync}

Paths ==
    {<<"Default", ".aspx">>, <<"Default", ".aspx", ".cs">>, <<"Page2", ".aspx">>,
     <<"Web.config", ".cs">>, <<"Util", ".cs">>}

File(content, readable) == [content |-> content, readable |-> readable]

\* an unreadable file has no content to speak of
DirFiles == {File(c, TRUE) : c \in DirContents} \cup {File(<<>>, FALSE)}

Idle == [printed |-> FALSE]

InitTool(t, d) ==
    /\ tool = t
    /\ pc = "scan"
    /\ dir = d
    /\ todo = (IF t = "audit" THEN AuditTargets(d) ELSE ProfileTargets(d))
    /\ visited = <<>>
    /\ issues = <<>>
    /\ metrics = <<>>
    /\ report = Idle
    /\ input = <<>>
    /\ decoded = NoBytes

\* either directory script, started on a directory of at most MaxFiles files
InitDir ==
    \E t \in {"audit", "profile"} :
        \E P \in SUBSET Paths :
            /\ Cardinality(P) <= MaxFiles
            /\ \E d \in [P -> DirFiles] : InitTool(t, d)

\* the auditor started on a directory of one file of at most MaxLines lines
InitFile ==
    \E p \in Paths, c \in FileContents, r \in BOOLEAN :
        /\ r \/ c = <<>>
        /\ InitTool("audit", (p :> File(c, r)))

InitPure(t, in) ==
    /\ tool = t
    /\ pc = "start"
    /\ dir = <<>>
    /\ todo = {}
    /\ visited = <<>>
    /\ issues = <<>>
    /\ metrics = <<>>
    /\ report = Idle
    /\ input = in
    /\ decoded = NoBytes

PayloadChars == {"A", "D", "Q", "3", "=", "%", " "}

InitViewstate ==
    \E n \in 0..MaxPayload : \E s \in [1..n -> PayloadChars] : InitPure("viewstate", s)

InitSize == \E size \in 0..MaxSize : InitPure("size", size)

\* the values of a metric around its thresholds
Around(limit) == {v \in (limit - Margin)..(limit + Margin + 1) : v >= 0}

MetricsRecords ==
    {[file |-> <<"Default", ".aspx">>, viewstate_enabled |-> v, output_cache |-> o,
      server_controls |-> s, updatepanels |-> u, database_calls |-> d,
      async_operations |-> a, issues |-> <<>>] :
        v \in BOOLEAN, o \in BOOLEAN, a \in BOOLEAN,
        s \in {0} \cup Around(ControlsLimit),
        u \in {0} \cup Around(UpdatePanelsLimit),
        d \in Around(0) \cup Around(DatabaseCallsLimit)}

MetricFields ==
    {"viewstate_enabled", "output_cache", "server_controls", "updatepanels",
     "database_calls", "async_operations"}

FieldValues(f) ==
    CASE f = "server_controls" -> {0} \cup Around(ControlsLimit)
      [] f = "updatepanels" -> {0} \cup Around(UpdatePanelsLimit)
      [] f = "database_calls" -> Around(0) \cup Around(DatabaseCallsLimit)
      [] OTHER -> BOOLEAN

\* the fields on which two metrics records differ
Differ(m1, m2) == {f \in MetricFields : m1[f] # m2[f]}

\* every UpdatePanel tag is a server control tag
Countable(m) == m.updatepanels <= m.server_controls

\* two metrics records that differ in one metric
InitMetrics ==
    \E m1 \in MetricsRecords, f \in MetricFields :
        \E v \in FieldValues(f) :
            /\ v # m1[f]
            /\ Countable(m1) /\ Countable([m1 EXCEPT ![f] = v])
            /\ InitPure("metrics", <<m1, [m1 EXCEPT ![f] = v]>>)

Next == NextAudit \/ NextProfile

Spec == InitDir /\ [][Next]_vars
SpecFile == InitFile /\ [][NextAudit]_vars
SpecViewstate == InitViewstate /\ [][NextViewstate]_vars
SpecSize == InitSize /\ [][AnalyzeSize]_vars
SpecMetrics == InitMetrics /\ [][AnalyzePair]_vars

----------------------------------------------------------------------------
(* Claims about analyze_metrics (SpecMetrics) *)

\* the predicate the specification gives for threshold finding k
Fires(k, m) ==
    CASE k = 1 -> m.viewstate_enabled /\ m.server_controls > 20
      [] k = 2 -> ~m.output_cache /\ m.database_calls > 0
      [] k = 3 -> m.updatepanels > 5
      [] k = 4 -> m.database_calls > 10
      [] k = 5 -> m.database_calls > 0 /\ ~m.async_operations

\* the metrics the predicate of finding k reads
Reads(k) ==
    CASE k = 1 -> {"viewstate_enabled", "server_controls"}
      [] k = 2 -> {"output_cache", "database_calls"}
      [] k = 3 -> {"updatepanels"}
      [] k = 4 -> {"database_calls"}
      [] k = 5 -> {"database_calls", "async_operations"}

FindingText(k) ==
    CASE k = 1 -> "ViewState enabled with n server controls"
      [] k = 2 -> "No output caching configured"
      [] k = 3 -> "n UpdatePanels detected"
      [] k = 4 -> "n database operations detected"
      [] k = 5 -> "Database operations detected but no async/await"

\* the records of finding k in a list of issues, and the list without them
Of(out, k) == LET Is(i) == i.message[1] = FindingText(k) IN SelectSeq(out, Is)
Without(out, k) == LET IsNot(i) == i.message[1] # FindingText(k) IN SelectSeq(out, IsNot)

FiresIff(m, out) ==
    /\ \A k \in 1..5 : Len(Of(out, k)) = (IF Fires(k, m) THEN 1 ELSE 0)
    /\ \A i \in 1..Len(out) : \E k \in 1..5 : out[i].message[1] = FindingText(k)

\* C1 as stated: each threshold finding is appended iff its predicate holds, and negating one
\* clause of the predicate of a finding that fired removes exactly that finding and leaves
\* every other finding as it was.
C1_Original ==
    (tool = "metrics" /\ pc = "done") =>
        /\ FiresIff(input[1], report[1])
        /\ FiresIff(input[2], report[2])
        /\ \A k \in 1..5 :
            (Fires(k, input[1]) /\ ~Fires(k, input[2])) =>
                report[2] = Without(report[1], k)

\* C1 amended: each threshold finding is appended iff its predicate holds; negating one clause
\* of the predicate of a finding that fired removes that finding, and leaves as it was every
\* other finding whose predicate does not read the changed metric.
C1_Amended ==
    (tool = "metrics" /\ pc = "done") =>
        /\ FiresIff(input[1], report[1])
        /\ FiresIff(input[2], report[2])
        /\ \A k \in 1..5 :
            (Fires(k, input[1]) /\ ~Fires(k, input[2])) =>
                /\ Of(report[2], k) = <<>>
                /\ \A j \in 1..5 :
                    Reads(j) \cap Differ(input[1], input[2]) = {} =>
                        Of(report[2], j) = Of(report[1], j)

\* database_calls dropped to 0: findings 2 and 5 are gone, finding 1 stays
C1_Witness ==
    /\ tool = "metrics" /\ pc = "done"
    /\ Fires(1, input[1]) /\ Fires(2, input[1]) /\ Fires(5, input[1])
    /\ input[2].database_calls = 0
    /\ Len(report[1]) = 3
    /\ Len(report[2]) = 1

----------------------------------------------------------------------------
(* Claims about analyze_viewstate.py (SpecViewstate, SpecSize) *)

\* C4: a payload that is valid base64 and decodes to zero bytes is reported as a successful
\* decode of size 0, classified acceptable, with every marker count zero, not as a failure.
C4_EmptyPayloadReported ==
    (tool = "viewstate" /\ pc = "done" /\ ~decoded.none /\ decoded.bytes = <<>>) =>
        /\ report.status = "analyzed"
        /\ report.exit = 0
        /\ report.analysis.printed
        /\ report.analysis.size = 0
        /\ report.analysis.class = "acceptable"
        /\ \A name \in MarkerNames : report.analysis.counts[name] = 0

\* C5: for every payload size analyze_viewstate selects exactly one class: acceptable iff
\* size < 10000, warning iff 10000 <= size < 50000, urgent iff size >= 50000.
C5_SizeClasses ==
    (tool = "size" /\ pc = "done") =>
        /\ report.printed
        /\ report.class \in {"acceptable", "warning", "urgent"}
        /\ report.class = "acceptable" <=> input < 10000
        /\ report.class = "warning" <=> (10000 <= input /\ input < 50000)
        /\ report.class = "urgent" <=> input >= 50000

----------------------------------------------------------------------------
(* Claims about one scanned file (SpecFile) *)

Range(seq) == {seq[i] : i \in 1..Len(seq)}

\* the issues recorded for the file p, in the order they were recorded
IssuesOf(p) == LET Is(i) == i.file = p IN SelectSeq(issues, Is)

ScannedWith(p, content) ==
    /\ p \in Range(visited)
    /\ dir[p].readable
    /\ dir[p].content = content

\* C2 as stated: a file whose only line is the SqlCommand line yields exactly one CRITICAL
\* finding, at that line.
C2_Original ==
    (tool = "audit" /\ pc = "done") =>
        \A p \in DOMAIN dir :
            ScannedWith(p, LSql) =>
                /\ Len(WithSeverity(IssuesOf(p), "CRITICAL")) = 1
                /\ WithSeverity(IssuesOf(p), "CRITICAL")[1].line = 1

\* C2 amended: the file yields exactly three CRITICAL findings at that line, one for each
\* injection pattern the line matches (Request, QueryString, SELECT concatenation), in
\* pattern order.
C2_Amended ==
    (tool = "audit" /\ pc = "done") =>
        \A p \in DOMAIN dir :
            ScannedWith(p, LSql) =>
                WithSeverity(IssuesOf(p), "CRITICAL") =
                    <<Issue("CRITICAL", p, 1, LSql,
                            "SQL injection: String concatenation with Request data"),
                      Issue("CRITICAL", p, 1, LSql,
                            "SQL injection: String concatenation with QueryString"),
                      Issue("CRITICAL", p, 1, LSql,
                            "SQL injection: String concatenation in SQL query")>>

C2_Witness ==
    /\ tool = "audit" /\ pc = "done"
    /\ \E p \in DOMAIN dir : ScannedWith(p, LSql) /\ Len(IssuesOf(p)) >= 3

\* C3 as stated: scanning a file with empty content adds no finding, for every path.
C3_Original ==
    (tool = "audit" /\ pc = "done") =>
        \A p \in DOMAIN dir : ScannedWith(p, <<>>) => IssuesOf(p) = <<>>

\* C3 amended: scanning a file with empty content adds no finding unless the path contains
\* ".aspx"; for such a path it adds exactly the file-level MEDIUM finding "ViewState
\* encryption not configured".
C3_Amended ==
    (tool = "audit" /\ pc = "done") =>
        \A p \in DOMAIN dir :
            ScannedWith(p, <<>>) =>
                IssuesOf(p) =
                    (IF \E i \in 1..Len(p) : p[i] = ".aspx"
                     THEN <<Issue("MEDIUM", p, 0, <<>>, "ViewState encryption not configured")>>
                     ELSE <<>>)

C3_Witness ==
    /\ tool = "audit" /\ pc = "done"
    /\ \E p \in DOMAIN dir :
        /\ ScannedWith(p, <<>>)
        /\ HasExt(p, ".cs")
        /\ Len(IssuesOf(p)) = 1

Messages(patterns) == [k \in 1..Len(patterns) |-> patterns[k].message]

ViewStateMessages ==
    <<"ViewState MAC disabled - vulnerable to tampering", "ViewState encryption not configured">>
AuthMessages == <<"Authentication disabled", "Anonymous access allowed globally">>
ErrorMessages ==
    <<"Custom errors disabled - stack traces exposed", "Debug mode enabled in production">>

\* the checks in the order scan_file calls them
CheckMessages ==
    <<Messages(SqlPatterns), Messages(XssPatterns), ViewStateMessages, AuthMessages,
      Messages(SensitivePatterns), ErrorMessages>>

\* the check that emits a message, and the rule's position in that check
CheckOf(msg) == CHOOSE c \in 1..Len(CheckMessages) : msg \in Range(CheckMessages[c])
RuleOf(msg) ==
    CHOOSE k \in 1..Len(CheckMessages[CheckOf(msg)]) : CheckMessages[CheckOf(msg)][k] = msg

\* family order of the specification: INJECTION, XSS, STATE_EXPOSURE/TAMPERING, AUTH_CONFIG,
\* ERROR_HANDLING; the view state settings and the sensitive-data rules are the third family
SpecFamily(msg) ==
    CASE CheckOf(msg) = 1 -> 1
      [] CheckOf(msg) = 2 -> 2
      [] CheckOf(msg) = 3 -> 3
      [] CheckOf(msg) = 5 -> 3
      [] CheckOf(msg) = 4 -> 4
      [] CheckOf(msg) = 6 -> 5

\* a comes before b by (family, line, rule)
Ordered(a, b, Family(_)) ==
    \/ Family(a.message) < Family(b.message)
    \/ /\ Family(a.message) = Family(b.message)
       /\ \/ a.line < b.line
          \/ /\ a.line = b.line
             /\ \/ CheckOf(a.message) < CheckOf(b.message)
                \/ /\ CheckOf(a.message) = CheckOf(b.message)
                   /\ RuleOf(a.message) < RuleOf(b.message)

\* C6 as stated: within one file, findings are appended in family order INJECTION, XSS,
\* STATE_EXPOSURE/TAMPERING, AUTH_CONFIG, ERROR_HANDLING, inside a family in line order and
\* then rule order.
C6_Original ==
    tool = "audit" =>
        \A i, j \in 1..Len(issues) :
            (i < j /\ issues[i].file = issues[j].file) =>
                Ordered(issues[i], issues[j], SpecFamily)

\* C6 amended: within one file, findings are appended in the order INJECTION, XSS, view state
\* settings (STATE_TAMPERING), AUTH_CONFIG, sensitive data (STATE_EXPOSURE), ERROR_HANDLING,
\* inside a family in line order and then rule order.
C6_Amended ==
    tool = "audit" =>
        \A i, j \in 1..Len(issues) :
            (i < j /\ issues[i].file = issues[j].file) =>
                Ordered(issues[i], issues[j], CheckOf)

\* an AUTH_CONFIG finding precedes a sensitive-data finding on a later line of the file,
\* which follows an injection finding
C6_Witness ==
    /\ tool = "audit" /\ pc = "done"
    /\ \E i, j \in 1..Len(issues) :
        /\ i < j
        /\ CheckOf(issues[i].message) = 4
        /\ CheckOf(issues[j].message) = 5
        /\ issues[j].line = 2

XssMessages == Range(Messages(XssPatterns))

\* the messages of the findings of the other rule families on line i of file p
OtherFindingsAt(p, i) ==
    LET Is(f) == f.file = p /\ f.line = i /\ f.message \notin XssMessages
        found == SelectSeq(issues, Is)
    IN  [n \in 1..Len(found) |-> found[n].message]

\* line b is line a with an encoder named after it
EncodedTwin(a, b) ==
    \E e \in {"HtmlEncode", "AntiXssEncoder"} : b = a \o <<SP, "//", SP, e>>

Encoded(line) ==
    \E i \in 1..Len(line) : Lower(line[i]) \in {"htmlencode", "antixssencoder"}

\* C10: an XSS rule match on a line is discarded exactly when the line also names an encoder,
\* and the findings of the other rule families on a line are the same with and without the
\* encoder.
C10_SuppressionLocal ==
    tool = "audit" =>
        \A p \in Range(visited) :
            dir[p].readable =>
                LET lines == Split(dir[p].content)
                IN  /\ \A i \in 1..Len(lines), k \in 1..Len(XssPatterns) :
                        (Issue("HIGH", p, i, Strip(lines[i]), XssPatterns[k].message)
                            \in Range(issues))
                        <=> (SearchI(XssPatterns[k].re, lines[i]) /\ ~Encoded(lines[i]))
                    /\ \A i, j \in 1..Len(lines) :
                        EncodedTwin(lines[i], lines[j]) =>
                            OtherFindingsAt(p, i) = OtherFindingsAt(p, j)

C10_Witness ==
    /\ tool = "audit" /\ pc = "done"
    /\ \E p \in Range(visited) :
        /\ ScannedWith(p, Join(<<LMix, LMixEnc>>))
        /\ \E f \in Range(issues) : f.line = 1 /\ f.message \in XssMessages
        /\ ~\E f \in Range(issues) : f.line = 2 /\ f.message \in XssMessages
        /\ Len(OtherFindingsAt(p, 2)) = 2

----------------------------------------------------------------------------
(* Claims about a run over a directory (Spec) *)

Targets == IF tool = "audit" THEN AuditTargets(dir) ELSE ProfileTargets(dir)

\* the file p cannot be read or analysed
Fails(p) == IF tool = "audit" THEN ~dir[p].readable ELSE ~PageReadable(p)

\* where the path p sits in the order of the visit
Position(p) == CHOOSE i \in 1..Len(visited) : visited[i] = p

MetricsOf(p) == LET Is(m) == m.file = p IN SelectSeq(metrics, Is)

\* C7: a file that fails while being read or analysed never aborts the run: while files
\* remain one of them can be processed next, whatever failed before, and the report is printed
\* only when every file was visited; the failing file contributes no finding and no metrics
\* entry, and the findings of every file that was processed are all in the report.
C7_NoAbort ==
    tool \in {"audit", "profile"} =>
        /\ pc = "scan" =>
            /\ Range(visited) \cup todo = Targets
            /\ Range(visited) \cap todo = {}
            /\ todo # {} => \E p \in todo : tool = "audit" => NextToScan(p)
        /\ \A p \in Range(visited) : Fails(p) => (IssuesOf(p) = <<>> /\ MetricsOf(p) = <<>>)
        /\ pc = "done" =>
            /\ Range(visited) = Targets
            /\ \A p \in Targets :
                ~Fails(p) =>
                    IF tool = "audit"
                    THEN \A f \in Range(ScanFileIssues(p, dir[p].content)) :
                            f \in Range(report.buckets[f.severity])
                    ELSE /\ MetricsOf(p) = <<PageMetrics(p)>>
                         /\ PageMetrics(p).issues # <<>> =>
                                [file |-> p, issues |-> PageMetrics(p).issues]
                                    \in Range(report.sections)

\* a file failed, and the report has the findings of the file visited after it
C7_Witness ==
    /\ tool = "audit" /\ pc = "done"
    /\ \E q, r \in Range(visited) :
        /\ Position(q) < Position(r)
        /\ Fails(q)
        /\ IssuesOf(r) # <<>>
        /\ report.total = Len(IssuesOf(r))

\* the sequences that list every element of S once
Orders(S) ==
    {o \in [1..Cardinality(S) -> S] : \A i, j \in 1..Cardinality(S) : i # j => o[i] # o[j]}

\* the orders in which scan can visit the directory: every '.aspx' file before every '.cs' file
AuditOrders ==
    {o \in Orders(AuditTargets(dir)) :
        \A i, j \in 1..Len(o) : (HasExt(o[i], ".aspx") /\ ~HasExt(o[j], ".aspx")) => i < j}

RECURSIVE IssuesFor(_)
IssuesFor(order) ==
    IF order = <<>> THEN <<>>
    ELSE (IF dir[Head(order)].readable
          THEN ScanFileIssues(Head(order), dir[Head(order)].content) ELSE <<>>)
         \o IssuesFor(Tail(order))

RECURSIVE MetricsFor(_)
MetricsFor(order) ==
    IF order = <<>> THEN <<>>
    ELSE (IF PageReadable(Head(order)) THEN <<PageMetrics(Head(order))>> ELSE <<>>)
         \o MetricsFor(Tail(order))

\* C8: the report is a function of the set of files only: whatever the order in which the
\* files are visited, the merged findings and the order inside each severity bucket are the
\* same.
C8_OrderIndependent ==
    pc = "done" =>
        IF tool = "audit"
        THEN \A o \in AuditOrders : report = AuditReport(IssuesFor(o))
        ELSE \A o \in Orders(ProfileTargets(dir)) : report = ProfileReport(MetricsFor(o))

Severities == {"CRITICAL", "HIGH", "MEDIUM", "LOW"}

BucketSize(buckets, s) == IF s \in DOMAIN buckets THEN Len(buckets[s]) ELSE 0

\* the buckets hold every finding of `list` exactly once, each bucket in discovery order, and
\* their sizes add up to the total
Bucketed(list, buckets, total) ==
    /\ \A s \in DOMAIN buckets :
        LET Is(f) == f.severity = s IN buckets[s] = SelectSeq(list, Is)
    /\ \A f \in Range(list) :
        Cardinality({s \in DOMAIN buckets : f \in Range(buckets[s])}) = 1
    /\ total = Len(list)
    /\ BucketSize(buckets, "CRITICAL") + BucketSize(buckets, "HIGH")
       + BucketSize(buckets, "MEDIUM") + BucketSize(buckets, "LOW") = total

RECURSIVE AllPageIssues(_)
AllPageIssues(ms) == IF ms = <<>> THEN <<>> ELSE Head(ms).issues \o AllPageIssues(Tail(ms))

\* C9 as stated: the report places every recorded finding in exactly one of the four severity
\* buckets CRITICAL, HIGH, MEDIUM, LOW, each bucket in discovery order, nothing merged or
\* dropped, and the per-severity counts add up to the total.
C9_Original ==
    pc = "done" =>
        /\ "buckets" \in DOMAIN report
        /\ DOMAIN report.buckets = Severities
        /\ Bucketed(IF tool = "audit" THEN issues ELSE AllPageIssues(metrics),
                    report.buckets, report.total)

\* C9 amended: the auditor's report places every recorded finding in exactly one of the three
\* severity buckets CRITICAL, HIGH, MEDIUM (the auditor records no LOW finding), each bucket
\* in discovery order, nothing merged or dropped, and the three counts add up to the total;
\* the profiler's report has no severity bucket: it lists, page by page in the order of the
\* visit, the findings of each page that has any, in the order they were appended, and its
\* total is the number of findings of all pages.
C9_Amended ==
    pc = "done" =>
        IF tool = "audit"
        THEN /\ DOMAIN report.buckets = {"CRITICAL", "HIGH", "MEDIUM"}
             /\ Bucketed(issues, report.buckets, report.total)
        ELSE /\ "buckets" \notin DOMAIN report
             /\ report.total = Len(AllPageIssues(metrics))
             /\ AllPageIssues(report.sections) = AllPageIssues(metrics)
             /\ \A i \in 1..Len(report.sections) : report.sections[i].issues # <<>>

\* an auditor's report with a finding in each of its three buckets
C9_Witness ==
    /\ tool = "audit" /\ pc = "done"
    /\ \A s \in DOMAIN report.buckets : report.buckets[s] # <<>>
    /\ Len(visited) >= 2

====
